---- MODULE Spec2Model ----
(***************************************************************************)
(* A model of meshio's format dispatcher (src/meshio/helpers.py) and of    *)
(* its Exodus II codec (src/exodus_io.py).                                 *)
(*                                                                         *)
(* Strings that the code takes apart (file names, field names) are         *)
(* sequences of symbols; strings that the code only compares as a whole    *)
(* (format tags, element types, dtype names) are TLA+ strings.             *)
(***************************************************************************)
EXTENDS Integers, Sequences, FiniteSets, TLC

VARIABLES
    fname,      \* helpers: the filename argument of the call
    ftype,      \* helpers: what _filetype_from_filename gave for fname
    regPc,      \* registry: which lookup was made last
    regIn,      \* registry: the tag that was looked up
    regOut,     \* registry: the result of the lookup
    pc,         \* codec: the call made last ("idle", "placed", "written", "read", "dispatched")
    given,      \* the mesh (or the arguments) handed to the write made last
    disk,       \* the container in storage
    handle,     \* the container handle of the call made last, when the call has ended
    raised,     \* the exception that ended the call made last, "none" for a return
    ret,        \* what the read made last returned
    dformat,    \* dispatcher: the file_format argument of the call
    invoked,    \* dispatcher: the codec write functions invoked, with their arguments
    touched     \* dispatcher: whether storage was touched by the call

resolveVars == <<fname, ftype>>

registryVars == <<regPc, regIn, regOut>>

codecVars == <<pc, given, disk, handle, raised, ret>>

dispatchVars == <<dformat, invoked, touched>>

vars == <<fname, ftype, regPc, regIn, regOut, pc, given, disk, handle, raised, ret, dformat, invoked, touched>>

Null == "null"

(***************************************************************************)
(* Generic helpers on sequences and dicts.  A Python dict is modelled as   *)
(* the sequence of its <<key, value>> items in insertion order.            *)
(***************************************************************************)
Range(s) == {s[i] : i \in 1..Len(s)}

SeqsUpTo(S, n) == UNION {[1..k -> S] : k \in 1..n}

Keys(items) == {items[i][1] : i \in 1..Len(items)}

Values(items) == {items[i][2] : i \in 1..Len(items)}

\* d[key] for a key that the dict holds: the value of its item.
Lookup(items, key) == items[CHOOSE i \in 1..Len(items) : items[i][1] = key][2]

RECURSIVE DictFromItemsFrom(_, _, _)
DictFromItemsFrom(items, i, acc) ==
    IF i > Len(items) THEN acc
    ELSE LET k == items[i][1]
             v == items[i][2]
             new == IF k \in Keys(acc)
                    THEN [j \in 1..Len(acc) |-> IF acc[j][1] = k THEN <<k, v>> ELSE acc[j]]
                    ELSE Append(acc, <<k, v>>)
         IN DictFromItemsFrom(items, i + 1, new)

\* dict(items): a later item of a key replaces the value of an earlier one.
DictFromItems(items) == DictFromItemsFrom(items, 1, <<>>)

(***************************************************************************)
(* helpers.py: format resolution from a filename                           *)
(***************************************************************************)
Dot == "."

_extension_to_filetype ==
    << << <<Dot, "e">>, "exodus" >>,
       << <<Dot, "ex2">>, "exodus" >>,
       << <<Dot, "exo">>, "exodus" >>,
       << <<Dot, "med">>, "med" >>,
       << <<Dot, "mesh">>, "medit" >>,
       << <<Dot, "msh">>, "gmsh-binary" >>,
       << <<Dot, "xml">>, "dolfin-xml" >>,
       << <<Dot, "post">>, "permas" >>,
       << <<Dot, "post", Dot, "gz">>, "permas" >>,
       << <<Dot, "dato">>, "permas" >>,
       << <<Dot, "dato", Dot, "gz">>, "permas" >>,
       << <<Dot, "h5m">>, "moab" >>,
       << <<Dot, "off">>, "off" >>,
       << <<Dot, "stl">>, "stl-binary" >>,
       << <<Dot, "vtu">>, "vtu-binary" >>,
       << <<Dot, "vtk">>, "vtk-binary" >>,
       << <<Dot, "xdmf">>, "xdmf" >>,
       << <<Dot, "xmf">>, "xdmf" >>,
       << <<Dot, "inp">>, "abaqus" >> >>

\* The assert of _filetype_from_filename that fails: no format could be deduced.
UnknownFormat == "UnknownFormat"

\* str.split("."): the pieces between the dots, empty pieces included.
RECURSIVE SplitFrom(_, _, _, _)
SplitFrom(s, i, piece, acc) ==
    IF i > Len(s) THEN Append(acc, piece)
    ELSE IF s[i] = Dot THEN SplitFrom(s, i + 1, <<>>, Append(acc, piece))
    ELSE SplitFrom(s, i + 1, Append(piece, s[i]), acc)

Split(s) == SplitFrom(s, 1, <<>>, <<>>)

\* [".{}".format(ext) for ext in filename.split(".")[1:]]
Suffixes(filename) ==
    LET parts == Split(filename)
    IN [i \in 1..(Len(parts) - 1) |-> <<Dot>> \o parts[i + 1]]

\* ext = suffix (the accumulated extension is dropped).
ExtendExtLast(suffix, ext) == suffix

\* ext = suffix + ext
ExtendExt(suffix, ext) == suffix \o ext

\* for suffix in reversed(suffixes): ... ; i runs from the last suffix down.
RECURSIVE ResolveLoop(_, _, _, _)
ResolveLoop(suffixes, i, ext, out) ==
    IF i = 0 THEN out
    ELSE LET e == ExtendExt(suffixes[i], ext)
         IN ResolveLoop(suffixes, i - 1, e,
                IF e \in Keys(_extension_to_filetype)
                THEN Lookup(_extension_to_filetype, e)
                ELSE out)

_filetype_from_filename(filename) ==
    LET suffixes == Suffixes(filename)
        out == ResolveLoop(suffixes, Len(suffixes), <<>>, Null)
    IN IF out = Null THEN UnknownFormat ELSE out

\* The symbols filenames are made of, and the longest filename.
NameSymbols == {Dot, "mesh", "e", "post", "dato", "gz"}

MaxNameLen == 5

Filenames == SeqsUpTo(NameSymbols, MaxNameLen)

Pending == "pending"

\* A call of _filetype_from_filename on the filename at hand.
Resolve ==
    /\ ftype = Pending
    /\ ftype' = _filetype_from_filename(fname)
    /\ UNCHANGED <<fname, registryVars, codecVars, dispatchVars>>

(***************************************************************************)
(* exodus_io.py: the element-type registry                                 *)
(***************************************************************************)
exodus_to_meshio_type ==
    << <<"BEAM", "line">>,
       <<"BEAM2", "line">>,
       <<"BEAM3", "line3">>,
       <<"BAR2", "line">>,
       <<"SHELL", "quad">>,
       <<"SHELL4", "quad">>,
       <<"SHELL8", "quad8">>,
       <<"SHELL9", "quad9">>,
       <<"QUAD", "quad">>,
       <<"QUAD4", "quad">>,
       <<"QUAD5", "quad5">>,
       <<"QUAD8", "quad8">>,
       <<"QUAD9", "quad9">>,
       <<"TRIANGLE", "triangle">>,
       <<"TRI3", "triangle">>,
       <<"TRI7", "triangle7">>,
       <<"TRI6", "triangle6">>,
       <<"HEX", "hexahedron">>,
       <<"HEXAHEDRON", "hexahedron">>,
       <<"HEX8", "hexahedron">>,
       <<"HEX9", "hexahedron9">>,
       <<"HEX20", "hexahedron20">>,
       <<"HEX27", "hexahedron27">>,
       <<"TETRA", "tetra">>,
       <<"TETRA4", "tetra4">>,
       <<"TETRA8", "tetra8">>,
       <<"TETRA10", "tetra10">>,
       <<"TETRA14", "tetra14">>,
       <<"PYRAMID", "pyramid">>,
       <<"WEDGE", "wedge">> >>

Swapped(items) == [i \in 1..Len(items) |-> <<items[i][2], items[i][1]>>]

RECURSIVE DictKeepFirstFrom(_, _, _)
DictKeepFirstFrom(items, i, acc) ==
    IF i > Len(items) THEN acc
    ELSE DictKeepFirstFrom(items, i + 1,
            IF items[i][1] \in Keys(acc) THEN acc ELSE Append(acc, items[i]))

\* The inverse built so that the first-registered alias of a canonical tag stays.
meshio_to_exodus_type_first == DictKeepFirstFrom(Swapped(exodus_to_meshio_type), 1, <<>>)

\* {v: k for k, v in exodus_to_meshio_type.items()}
meshio_to_exodus_type == DictFromItems(Swapped(exodus_to_meshio_type))

KeyError == "KeyError"

\* d[key]: the value, or a KeyError.
GetItem(items, key) == IF key \in Keys(items) THEN Lookup(items, key) ELSE KeyError

\* Spellings of element types, as stored by other writers, that are not upper case.
MixedCase ==
    << <<"hex8", "HEX8">>,
       <<"Tetra", "TETRA">>,
       <<"quad", "QUAD">>,
       <<"tri3", "TRI3">>,
       <<"Beam", "BEAM">>,
       <<"foo", "FOO">> >>

\* str.upper()
Upper(s) == IF s \in Keys(MixedCase) THEN Lookup(MixedCase, s) ELSE s

\* exodus_to_meshio_type[value.elem_type.upper()]
to_canonical(elem_type) == GetItem(exodus_to_meshio_type, Upper(elem_type))

\* meshio_to_exodus_type[key]
to_disk(key) == GetItem(meshio_to_exodus_type, key)

DiskTagInputs == Keys(exodus_to_meshio_type) \cup Keys(MixedCase) \cup {"FOO"}

CanonicalInputs == Values(exodus_to_meshio_type) \cup {"vertex"}

\* The lookup the reader makes for a block's elem_type attribute.
LookupCanonical ==
    /\ regPc = Null
    /\ \E t \in DiskTagInputs :
        /\ regIn' = t
        /\ regOut' = to_canonical(t)
    /\ regPc' = "to_canonical"
    /\ UNCHANGED <<resolveVars, codecVars, dispatchVars>>

\* The lookup the writer makes for a cells key.
LookupDisk ==
    /\ regPc = Null
    /\ \E c \in CanonicalInputs :
        /\ regIn' = c
        /\ regOut' = to_disk(c)
    /\ regPc' = "to_disk"
    /\ UNCHANGED <<resolveVars, codecVars, dispatchVars>>

\* The canonical tag a reader found is handed to a writer.
ThenDisk ==
    /\ regPc = "to_canonical"
    /\ regOut # KeyError
    /\ regOut' = to_disk(regOut)
    /\ regPc' = "disk_of_canonical"
    /\ UNCHANGED <<resolveVars, regIn, codecVars, dispatchVars>>

\* The disk tag a writer stored is read back.
ThenCanonical ==
    /\ regPc = "to_disk"
    /\ regOut # KeyError
    /\ regOut' = to_canonical(regOut)
    /\ regPc' = "canonical_of_disk"
    /\ UNCHANGED <<resolveVars, regIn, codecVars, dispatchVars>>

(***************************************************************************)
(* exodus_io.py: arrays, numbers and the netCDF container                  *)
(*                                                                         *)
(* A 2-d array is [dtype, ncols, rows], a 1-d array is [dtype, data].  An  *)
(* element of an integer array is the integer itself; an element of a      *)
(* floating-point array is kept as twice its value, so that halves (0.5,   *)
(* 1.5) are elements too.                                                  *)
(***************************************************************************)
numpy_to_exodus_dtype ==
    << <<"float32", "f4">>,
       <<"float64", "f8">>,
       <<"int8", "i1">>,
       <<"int16", "i2">>,
       <<"int32", "i4">>,
       <<"int64", "i8">>,
       <<"uint8", "u1">>,
       <<"uint16", "u2">>,
       <<"uint32", "u4">>,
       <<"uint64", "u8">> >>

\* The numpy dtype of the array that netCDF4 returns for a stored type code.
NumpyOf(code) == Lookup(Swapped(numpy_to_exodus_dtype), code)

IsFloat(dtype) == dtype \in {"float16", "float32", "float64", "f4", "f8"}

\* Two's-complement wrap-around of the narrow integer types; the wide ones
\* are far from their limits for every number of the model.
Wrap(v, dtype) ==
    IF dtype \in {"int8", "i1"} THEN ((v + 2^7) % 2^8) - 2^7
    ELSE IF dtype \in {"uint8", "u1"} THEN v % 2^8
    ELSE IF dtype \in {"int16", "i2"} THEN ((v + 2^15) % 2^16) - 2^15
    ELSE IF dtype \in {"uint16", "u2"} THEN v % 2^16
    ELSE v

\* values + 1, in the dtype of the array.
PlusOne(v, dtype) == IF IsFloat(dtype) THEN v + 2 ELSE Wrap(v + 1, dtype)

\* value[:] - 1, in the dtype of the array.
MinusOne(v, dtype) == IF IsFloat(dtype) THEN v - 2 ELSE Wrap(v - 1, dtype)

\* The conversion netCDF4 makes when data of one type is assigned to a
\* variable of another (numpy's astype: a fraction is cut off towards zero).
Cast(v, from, to) ==
    IF IsFloat(from) THEN
        IF IsFloat(to) THEN v
        ELSE Wrap(IF v >= 0 THEN v \div 2 ELSE -((-v) \div 2), to)
    ELSE
        IF IsFloat(to) THEN 2 * v
        ELSE Wrap(v, to)

\* Names of dimensions and variables: a base and, for numbered names such as
\* connect3, the number (0 for a plain name).
Plain(base) == <<base, 0>>

Numbered(base, k) == <<base, k>>

\* len_string
LenString == 33

\* The bytes of the characters that names are made of (UTF-8, one byte each).
Utf8 ==
    << <<"a", 97>>, <<"b", 98>>, <<"x", 120>>, <<"X", 88>>, <<"Y", 89>>, <<"Z", 90>> >>

\* letter.encode("utf-8")
Encode(letter) == Lookup(Utf8, letter)

\* bytes.decode("UTF-8") of a single-byte character
DecodeByte(b) == Lookup(Swapped(Utf8), b)

\* The fill value of an unwritten character cell; numpy hands it out as b"".
NUL == 0

EmptyDataset == [dims |-> <<>>, vars |-> <<>>]

\* rootgrp.createDimension(name, size)
createDimension(nc, name, size) == [nc EXCEPT !.dims = Append(@, <<name, size>>)]

\* len(nc.dimensions[name])
DimLen(nc, name) == Lookup(nc.dims, name)

SetDim(nc, name, size) ==
    [nc EXCEPT !.dims = [i \in 1..Len(@) |-> IF @[i][1] = name THEN <<name, size>> ELSE @[i]]]

\* rootgrp.createVariable(name, dtype, dims), with the data assigned to it
\* and its elem_type attribute ("" when it has none).
createVariable(nc, name, dtype, dims, elem_type, data) ==
    [nc EXCEPT !.vars = Append(@, [name |-> name, dtype |-> dtype, dims |-> dims,
                                   elem_type |-> elem_type, data |-> data])]

\* value.shape[1]: the size of the second dimension of a stored variable.
DimLen2(nc, v) == DimLen(nc, v.dims[2])

\* array.T of a 2-d array given as its rows.
Transpose(rows, ncols) == [j \in 1..ncols |-> [i \in 1..Len(rows) |-> rows[i][j]]]

RECURSIVE SumShape0(_, _)
SumShape0(items, i) ==
    IF i > Len(items) THEN 0 ELSE Len(items[i][2].rows) + SumShape0(items, i + 1)

\* A row of len_string character cells holding the first letters of a name.
CharRow(name) ==
    [i \in 1..LenString |-> IF i <= Len(name) THEN Encode(name[i]) ELSE NUL]

IndexError == "IndexError"

TypeError == "TypeError"

ValueError == "ValueError"

NoError == "none"

\* for k, name in enumerate(names): for i, letter in enumerate(name):
\*     data_names[k, i] = letter.encode("utf-8")
\* The rows as they stand when the loops end, and the error that ended them:
\* the cell with index len_string does not exist.
NameRows(names) ==
    LET bad == {k \in 1..Len(names) : Len(names[k]) > LenString}
        stop == IF bad = {} THEN Len(names)
                ELSE CHOOSE k \in bad : \A j \in bad : k <= j
    IN [rows |-> [k \in 1..Len(names) |-> IF k <= stop THEN CharRow(names[k]) ELSE CharRow(<<>>)],
        stop |-> stop,
        err |-> IF bad = {} THEN NoError ELSE IndexError]

DictKeys(items) == [i \in 1..Len(items) |-> items[i][1]]

(***************************************************************************)
(* exodus_io.py: write                                                     *)
(*                                                                         *)
(* Each stage takes and gives [nc, err]: the container as it stands and    *)
(* the exception that ended the call ("none" while it runs).               *)
(***************************************************************************)
\* None, for an optional argument; write() replaces it by an empty dict,
\* which is what it is here from the start.
None == <<>>

Ok(nc) == [nc |-> nc, err |-> NoError]

Raise(nc, e) == [nc |-> nc, err |-> e]

\* Lines 143-158: the dimensions and the dummy time step.
WriteHeader(points, cells, nsets, ssets) ==
    LET dims == << <<Plain("num_nodes"), Len(points.rows)>>,
                   <<Plain("num_dim"), 3>>,
                   <<Plain("num_elem"), SumShape0(cells, 1)>>,
                   <<Plain("num_el_blk"), Len(cells)>>,
                   <<Plain("num_node_sets"), Len(nsets)>>,
                   <<Plain("num_side_sets"), Len(ssets)>>,
                   <<Plain("len_string"), LenString>>,
                   <<Plain("len_line"), 81>>,
                   <<Plain("four"), 4>>,
                   <<Plain("time_step"), 0>> >>
        nc == [EmptyDataset EXCEPT !.dims = dims]
    IN Ok(createVariable(nc, Plain("time_whole"), "f4", <<Plain("time_step")>>, "", <<>>))

\* Lines 160-169: the axis names and the coordinates.
WritePoints(st, points) ==
    IF st.err # NoError THEN st
    ELSE LET nc1 == createVariable(st.nc, Plain("coor_names"), "S1",
                        <<Plain("num_dim"), Plain("len_string")>>, "",
                        <<CharRow(<<"X">>), CharRow(<<"Y">>), CharRow(<<"Z">>)>>)
             dtype == GetItem(numpy_to_exodus_dtype, points.dtype)
         IN IF dtype = KeyError THEN Raise(nc1, KeyError)
            ELSE Ok(createVariable(nc1, Plain("coord"), dtype,
                        <<Plain("num_dim"), Plain("num_nodes")>>, "",
                        Transpose(points.rows, points.ncols)))

\* Lines 174-176: eb_prop1.
WriteBlockIds(st, cells) ==
    IF st.err # NoError THEN st
    ELSE Ok(createVariable(st.nc, Plain("eb_prop1"), "i4", <<Plain("num_el_blk")>>, "",
                [k \in 1..Len(cells) |-> k - 1]))

\* Lines 177-186: one connect<k> per item of cells, from item k on.
RECURSIVE WriteCells(_, _, _)
WriteCells(st, cells, k) ==
    IF st.err # NoError \/ k > Len(cells) THEN st
    ELSE LET key == cells[k][1]
             values == cells[k][2]
             dim1 == Numbered("num_el_in_blk", k)
             dim2 == Numbered("num_nod_per_el", k)
             nc1 == createDimension(createDimension(st.nc, dim1, Len(values.rows)),
                                    dim2, values.ncols)
             dtype == GetItem(numpy_to_exodus_dtype, values.dtype)
             elem_type == to_disk(key)
         IN IF dtype = KeyError THEN Raise(nc1, KeyError)
            ELSE IF elem_type = KeyError
            THEN Raise(createVariable(nc1, Numbered("connect", k), dtype, <<dim1, dim2>>, "", <<>>),
                       KeyError)
            ELSE WriteCells(
                    Ok(createVariable(nc1, Numbered("connect", k), dtype, <<dim1, dim2>>, elem_type,
                        [r \in 1..Len(values.rows) |->
                            [c \in 1..values.ncols |-> PlusOne(values.rows[r][c], values.dtype)]])),
                    cells, k + 1)

\* Lines 191-211: the names and the values of the point data.
WritePointData(st, point_data) ==
    IF st.err # NoError \/ Len(point_data) = 0 THEN st
    ELSE LET n == Len(point_data)
             names == NameRows(DictKeys(point_data))
             nc1 == createVariable(createDimension(st.nc, Plain("num_nod_var"), n),
                        Plain("name_nod_var"), "S1",
                        <<Plain("num_nod_var"), Plain("len_string")>>, "", names.rows)
             dtype == GetItem(numpy_to_exodus_dtype, point_data[1][2].dtype)
             vals == << [k \in 1..n |->
                            [i \in 1..Len(point_data[k][2].data) |->
                                Cast(point_data[k][2].data[i], point_data[k][2].dtype, dtype)]] >>
         IN IF names.err # NoError THEN Raise(nc1, names.err)
            ELSE IF dtype = KeyError THEN Raise(nc1, KeyError)
            ELSE Ok(createVariable(SetDim(nc1, Plain("time_step"), 1), Plain("vals_nod_var"), dtype,
                        <<Plain("time_step"), Plain("num_nod_var"), Plain("num_nodes")>>, "", vals))

\* Lines 221-227: one node_ns<k> per node set, from set k on.
RECURSIVE WriteNodeSets(_, _, _)
WriteNodeSets(st, nsets, k) ==
    IF st.err # NoError \/ k > Len(nsets) THEN st
    ELSE LET values == nsets[k][2]
             dim1 == Numbered("num_nod_ns", k)
             nc1 == createDimension(st.nc, dim1, Len(values.data))
             dtype == GetItem(numpy_to_exodus_dtype, values.dtype)
         IN IF dtype = KeyError THEN Raise(nc1, KeyError)
            ELSE WriteNodeSets(
                    Ok(createVariable(nc1, Numbered("node_ns", k), dtype, <<dim1>>, "",
                        [i \in 1..Len(values.data) |-> PlusOne(values.data[i], values.dtype)])),
                    nsets, k + 1)

\* Lines 214-220 and 231-236: the ids and the names of the sets, as far as
\* the loop over the names got.
WriteSetNames(st, sets, prop, names_var, count_dim) ==
    IF st.err # NoError \/ Len(sets) = 0 THEN st
    ELSE LET names == NameRows(DictKeys(sets))
             nc1 == createVariable(st.nc, Plain(prop), "i4", <<Plain(count_dim)>>, "",
                        [k \in 1..names.stop |-> k - 1])
             nc2 == createVariable(nc1, Plain(names_var), "S1",
                        <<Plain(count_dim), Plain("len_string")>>, "", names.rows)
         IN IF names.err # NoError THEN Raise(nc2, names.err) ELSE Ok(nc2)

\* Lines 237-244: one elem_ss<k> and one side_ss<k> per side set, from set k on.
RECURSIVE WriteSideSets(_, _, _)
WriteSideSets(st, ssets, k) ==
    IF st.err # NoError \/ k > Len(ssets) THEN st
    ELSE LET values == ssets[k][2]
             dim1 == Numbered("num_side_ss", k)
             nc1 == createDimension(st.nc, dim1, Len(values.rows))
             dtype == GetItem(numpy_to_exodus_dtype, values.dtype)
             elems == [i \in 1..Len(values.rows) |-> PlusOne(values.rows[i][1], values.dtype)]
             sides == [i \in 1..Len(values.rows) |-> values.rows[i][2]]
         IN IF dtype = KeyError THEN Raise(nc1, KeyError)
            ELSE WriteSideSets(
                    Ok(createVariable(
                        createVariable(nc1, Numbered("elem_ss", k), dtype, <<dim1>>, "", elems),
                        Numbered("side_ss", k), dtype, <<dim1>>, "", sides)),
                    ssets, k + 1)

\* The body of write(), from netCDF4.Dataset(filename, "w") to rootgrp.close().
WriteBody(points, cells, point_data, nsets, ssets) ==
    LET s1 == WritePoints(WriteHeader(points, cells, nsets, ssets), points)
        s2 == WriteCells(WriteBlockIds(s1, cells), cells, 1)
        s3 == WritePointData(s2, point_data)
        s4 == WriteNodeSets(WriteSetNames(s3, nsets, "ns_prop1", "ns_names", "num_node_sets"),
                            nsets, 1)
        s5 == WriteSideSets(WriteSetNames(s4, ssets, "ss_prop1", "ss_names", "num_side_sets"),
                            ssets, 1)
    IN s5

HandleOpen == "open"

HandleClosed == "closed"

HandleNone == "unopened"

\* rootgrp.close() is the statement before the return: an exception leaves
\* the handle as it is.
HandleAfter(err) == IF err = NoError THEN HandleClosed ELSE HandleOpen

\* write(filename, points, cells, point_data=None, cell_data=None,
\*       field_data=None, nsets=None, ssets=None), called with the positional
\* arguments args.  Gives [err, nc, handle, touched]: touched says whether the
\* file was created.
exodus_write(args) ==
    IF Len(args) < 3 \/ Len(args) > 8
    THEN [err |-> TypeError, nc |-> EmptyDataset, handle |-> HandleNone, touched |-> FALSE]
    ELSE LET opt(i) == IF Len(args) >= i THEN args[i] ELSE None
             st == WriteBody(args[2], args[3], opt(4), opt(7), opt(8))
         IN [err |-> st.err, nc |-> st.nc, handle |-> HandleAfter(st.err), touched |-> TRUE]

(***************************************************************************)
(* exodus_io.py: read                                                      *)
(***************************************************************************)
\* numpy.zeros((n, 3))
Zeros(n) == [dtype |-> "float64", ncols |-> 3, rows |-> [i \in 1..n |-> <<0, 0, 0>>]]

\* The result type of stacking arrays of two dtypes.
IntRank(dtype) ==
    IF dtype \in {"int8", "uint8"} THEN 1
    ELSE IF dtype \in {"int16", "uint16"} THEN 2
    ELSE IF dtype \in {"int32", "uint32"} THEN 3
    ELSE 4

ResultType(a, b) ==
    IF a = b THEN a
    ELSE IF IsFloat(a) \/ IsFloat(b) THEN "float64"
    ELSE IF IntRank(a) >= IntRank(b) THEN a ELSE b

\* numpy.vstack([new, old]): the new rows come first.
VStackReversed(old, new) ==
    [dtype |-> ResultType(old.dtype, new.dtype), ncols |-> old.ncols, rows |-> new.rows \o old.rows]

\* numpy.vstack([old, new]) of two arrays with rows of the same width.
VStack(old, new) ==
    [dtype |-> ResultType(old.dtype, new.dtype), ncols |-> old.ncols, rows |-> old.rows \o new.rows]

\* cells[key] = value: a new key goes last, a key that is there keeps its place.
SetItem(items, key, value) == DictFromItems(Append(items, <<key, value>>))

\* value[:] - 1 of a connect variable.
BlockArray(nc, v) ==
    LET dtype == NumpyOf(v.dtype)
    IN [dtype |-> dtype,
        ncols |-> DimLen2(nc, v),
        rows |-> [r \in 1..Len(v.data) |-> [c \in 1..Len(v.data[r]) |-> MinusOne(v.data[r][c], dtype)]]]

\* points[:, col] = value[:]
SetColumn(points, col, v) ==
    [points EXCEPT !.rows = [i \in 1..Len(@) |->
        [@[i] EXCEPT ![col] = Cast(v.data[i], NumpyOf(v.dtype), points.dtype)]]]

\* [b"".join(c).decode("UTF-8") for c in value[:]]
DecodeRow(row) ==
    LET bytes == SelectSeq(row, LAMBDA b : b # NUL)
    IN [i \in 1..Len(bytes) |-> DecodeByte(bytes[i])]

\* One step of the scan of the container nc: the variable v met in the state
\* sc of the scan, [points, names, pd, cells, err].
ScanStep(nc, sc, v) ==
    IF v.name[1] = "connect" THEN
        LET meshio_type == to_canonical(v.elem_type)
            block == BlockArray(nc, v)
        IN IF meshio_type = KeyError THEN [sc EXCEPT !.err = KeyError]
           ELSE IF meshio_type \in Keys(sc.cells)
           THEN IF Lookup(sc.cells, meshio_type).ncols # block.ncols
                THEN [sc EXCEPT !.err = ValueError]
                ELSE [sc EXCEPT !.cells =
                        SetItem(@, meshio_type, VStack(Lookup(sc.cells, meshio_type), block))]
           ELSE [sc EXCEPT !.cells = SetItem(@, meshio_type, block)]
    ELSE IF v.name = Plain("coord") THEN
        [sc EXCEPT !.points = [dtype |-> NumpyOf(v.dtype), ncols |-> Len(v.data),
                               rows |-> Transpose(v.data, DimLen2(nc, v))]]
    ELSE IF v.name = Plain("coordx") THEN [sc EXCEPT !.points = SetColumn(@, 1, v)]
    ELSE IF v.name = Plain("coordy") THEN [sc EXCEPT !.points = SetColumn(@, 2, v)]
    ELSE IF v.name = Plain("coordz") THEN [sc EXCEPT !.points = SetColumn(@, 3, v)]
    ELSE IF v.name = Plain("name_nod_var") THEN
        [sc EXCEPT !.names = [k \in 1..Len(v.data) |-> DecodeRow(v.data[k])]]
    ELSE IF v.name = Plain("vals_nod_var") THEN
        IF Len(v.data) = 0 THEN [sc EXCEPT !.err = IndexError]
        ELSE [sc EXCEPT !.pd = [k \in 1..Len(v.data[1]) |->
                                    [dtype |-> NumpyOf(v.dtype), data |-> v.data[1][k]]]]
    ELSE sc

\* for key, value in nc.variables.items(): from variable i on.
RECURSIVE Scan(_, _, _)
Scan(nc, sc, i) ==
    IF sc.err # NoError \/ i > Len(nc.vars) THEN sc
    ELSE Scan(nc, ScanStep(nc, sc, nc.vars[i]), i + 1)

Min(a, b) == IF a <= b THEN a ELSE b

\* {name: dat for name, dat in zip(point_data_names, pd)}
ZipDict(names, pd) == DictFromItems([k \in 1..Min(Len(names), Len(pd)) |-> <<names[k], pd[k]>>])

\* read(filename) on the container nc.  Gives [err, handle, points, cells,
\* point_data, cell_data, field_data].
exodus_read(nc) ==
    LET sc0 == [points |-> Zeros(DimLen(nc, Plain("num_nodes"))), names |-> <<>>, pd |-> <<>>,
                cells |-> <<>>, err |-> NoError]
        sc == Scan(nc, sc0, 1)
    IN [err |-> sc.err, handle |-> HandleAfter(sc.err),
        points |-> sc.points, cells |-> sc.cells,
        point_data |-> ZipDict(sc.names, sc.pd),
        cell_data |-> <<>>, field_data |-> <<>>]

(***************************************************************************)
(* The meshes given to write, and the containers of other writers          *)
(***************************************************************************)
MaxRows == 2

MaxBlocks == 2

MaxFields == 2

MaxSets == 2

\* Sequences of at most n elements of S, no two with the same key.
RECURSIVE DictsUpTo(_, _)
DictsUpTo(S, n) ==
    IF n = 0 THEN {<<>>}
    ELSE LET shorter == DictsUpTo(S, n - 1)
         IN shorter \cup UNION {{Append(d, x) : x \in {y \in S : y[1] \notin Keys(d)}} :
                                    d \in {e \in shorter : Len(e) = n - 1}}

\* Meshes of a few nodes, and meshes with as many nodes as an int8 can index.
NodeCounts == {3, 2^7}

\* Node i lies at (i/2, i + 1/2, 0).
PointsOf(n, dtype) ==
    [dtype |-> dtype, ncols |-> 3, rows |-> [i \in 1..n |-> <<i, 2 * i + 1, 0>>]]

\* The node count of each canonical type that meshes are made of here.
NodesPerCell == << <<"line", 2>>, <<"triangle", 3>>, <<"vertex", 1>> >>

\* r rows of w node indices below n, the last row ending at node n - 1.
IndexRows(w, r, n) ==
    [i \in 1..r |-> [j \in 1..w |-> (2 * n - w - (r - i) + (j - 1)) % n]]

\* "float16" stands for the dtypes that numpy_to_exodus_dtype does not hold.
IndexDtypes == {"int64", "int8", "float16"}

Blocks(n) ==
    {<<NodesPerCell[t][1],
       [dtype |-> d, ncols |-> NodesPerCell[t][2], rows |-> IndexRows(NodesPerCell[t][2], r, n)]>> :
        t \in 1..Len(NodesPerCell), d \in IndexDtypes, r \in {1, MaxRows}}

OneLine(n) == << <<"line", [dtype |-> "int64", ncols |-> 2, rows |-> IndexRows(2, 1, n)]>> >>

\* A name of k letters.
LongName(k) == [i \in 1..k |-> IF i = 1 THEN "a" ELSE "x"]

FieldNames ==
    {<<"a">>, <<"b">>, LongName(LenString - 1), LongName(LenString), LongName(LenString + 1)}

\* Per-node values: whole numbers, or numbers and a half.
FieldArrays(n) ==
    {[dtype |-> "float64", data |-> [i \in 1..n |-> 2 * i + 1]],
     [dtype |-> "float64", data |-> [i \in 1..n |-> 2 * i]],
     [dtype |-> "int8", data |-> [i \in 1..n |-> i]],
     [dtype |-> "float16", data |-> [i \in 1..n |-> 2 * i]]}

Fields(n) == {<<name, arr>> : name \in FieldNames, arr \in FieldArrays(n)}

SetNames == {<<"a">>, <<"b">>, LongName(LenString + 1)}

NodeSets(n) ==
    {<<name, [dtype |-> d, data |-> [i \in 1..r |-> n - r + i - 1]]>> :
        name \in SetNames, d \in IndexDtypes, r \in {MaxRows}}

\* Rows of (element index, local side number): sides 1..r of element 0.
SideSets ==
    {<<name, [dtype |-> d, ncols |-> 2, rows |-> [i \in 1..r |-> <<0, i>>]]>> :
        name \in SetNames, d \in IndexDtypes, r \in {MaxRows}}

\* The positional arguments of a call of write().
Args(points, cells, point_data, nsets, ssets) ==
    <<"mesh.e", points, cells, point_data, None, None, nsets, ssets>>

WriteArgs ==
    UNION {{Args(PointsOf(n, "float64"), c, <<>>, <<>>, <<>>) :
                c \in DictsUpTo(Blocks(n), MaxBlocks)} : n \in NodeCounts}
    \cup {Args(PointsOf(3, "float16"), OneLine(3), <<>>, <<>>, <<>>)}
    \cup {Args(PointsOf(3, "float64"), OneLine(3), d, <<>>, <<>>) :
            d \in DictsUpTo(Fields(3), MaxFields)}
    \cup UNION {{Args(PointsOf(n, "float64"), OneLine(n), <<>>, ns, <<>>) :
                    ns \in DictsUpTo(NodeSets(n), MaxSets)} : n \in NodeCounts}
    \cup {Args(PointsOf(3, "float64"), OneLine(3), <<>>, <<>>, ss) :
            ss \in DictsUpTo(SideSets, MaxSets)}

\* A container as another Exodus writer leaves it: a few nodes, the coordinate
\* variables named in coords in that order, the blocks, and step time steps of
\* fields point data fields.
ExternalNodes == 2

ExternalCoord(name) ==
    IF name = "coord"
    THEN [name |-> Plain("coord"), dtype |-> "f8", dims |-> <<Plain("num_dim"), Plain("num_nodes")>>,
          elem_type |-> "",
          data |-> [d \in 1..3 |-> [i \in 1..ExternalNodes |-> 20 * d + 2 * (i - 1)]]]
    ELSE [name |-> Plain(name), dtype |-> "f8", dims |-> <<Plain("num_nodes")>>, elem_type |-> "",
          data |-> [i \in 1..ExternalNodes |->
                     (IF name = "coordx" THEN 1 ELSE IF name = "coordy" THEN 5 ELSE 9) + 2 * (i - 1)]]

CoordOrders ==
    {o \in SeqsUpTo({"coord", "coordx", "coordy", "coordz"}, 4) :
        \A i, j \in 1..Len(o) : i # j => o[i] # o[j]}

\* An element block: its elem_type, its nodes per element, its elements.
ExternalBlockKinds ==
    {<<"BEAM", 2>>, <<"BEAM", 3>>, <<"BAR2", 2>>, <<"Beam", 2>>, <<"TRI3", 3>>, <<"SPHERE", 1>>}

ExternalBlocks ==
    UNION {[1..k -> {<<b[1], b[2], r>> : b \in ExternalBlockKinds, r \in {1, MaxRows}}] :
            k \in 0..MaxBlocks}

\* Block k holds the 1-based node numbers 10k + 1, 10k + 2, ...
ExternalConnect(blocks, k) ==
    [name |-> Numbered("connect", k), dtype |-> "i8",
     dims |-> <<Numbered("num_el_in_blk", k), Numbered("num_nod_per_el", k)>>,
     elem_type |-> blocks[k][1],
     data |-> [r \in 1..blocks[k][3] |->
                [c \in 1..blocks[k][2] |-> 10 * k + (r - 1) * blocks[k][2] + c]]]

ExternalPointData(steps, fields) ==
    IF fields = 0 THEN <<>>
    ELSE << [name |-> Plain("name_nod_var"), dtype |-> "S1",
             dims |-> <<Plain("num_nod_var"), Plain("len_string")>>, elem_type |-> "",
             data |-> [k \in 1..fields |-> CharRow(IF k = 1 THEN <<"a">> ELSE LongName(k))]],
            [name |-> Plain("vals_nod_var"), dtype |-> "f8",
             dims |-> <<Plain("time_step"), Plain("num_nod_var"), Plain("num_nodes")>>,
             elem_type |-> "",
             data |-> [t \in 1..steps |-> [k \in 1..fields |->
                        [i \in 1..ExternalNodes |-> 100 * t + 10 * k + i]]]] >>

ExternalContainer(coords, blocks, steps, fields) ==
    [dims |-> << <<Plain("num_nodes"), ExternalNodes>>, <<Plain("num_dim"), 3>>,
                 <<Plain("len_string"), LenString>>, <<Plain("time_step"), steps>>,
                 <<Plain("num_nod_var"), fields>> >>
              \o [i \in 1..(2 * Len(blocks)) |->
                    IF i % 2 = 1 THEN <<Numbered("num_el_in_blk", (i + 1) \div 2), blocks[(i + 1) \div 2][3]>>
                    ELSE <<Numbered("num_nod_per_el", i \div 2), blocks[i \div 2][2]>>],
     vars |-> [i \in 1..Len(coords) |-> ExternalCoord(coords[i])]
              \o [k \in 1..Len(blocks) |-> ExternalConnect(blocks, k)]
              \o ExternalPointData(steps, fields)]

ExternalContainers ==
    {ExternalContainer(o, <<>>, 0, 0) : o \in CoordOrders}
    \cup {ExternalContainer(<<"coord">>, b, 0, 0) : b \in ExternalBlocks}
    \cup {ExternalContainer(<<"coord">>, <<>>, t, f) : t \in {0, 1, 3}, f \in 1..MaxFields}

(***************************************************************************)
(* The calls of the codec                                                  *)
(***************************************************************************)
\* Another writer's container is put in storage.
Place ==
    /\ pc = "idle"
    /\ \E c \in ExternalContainers : disk' = c
    /\ pc' = "placed"
    /\ UNCHANGED <<given, handle, raised, ret, resolveVars, registryVars, dispatchVars>>

\* A call of exodus_io.write.
Write ==
    /\ pc = "idle"
    /\ \E args \in WriteArgs :
        LET r == exodus_write(args)
        IN /\ given' = args
           /\ disk' = r.nc
           /\ handle' = r.handle
           /\ raised' = r.err
    /\ pc' = "written"
    /\ UNCHANGED <<ret, resolveVars, registryVars, dispatchVars>>

\* A call of exodus_io.read on the container in storage, which is there
\* whole: put there, or written by a call that returned.
Read ==
    /\ pc \in {"placed", "written"}
    /\ raised = NoError
    /\ LET r == exodus_read(disk)
       IN /\ handle' = r.handle
          /\ raised' = r.err
          /\ ret' = [points |-> r.points, cells |-> r.cells, point_data |-> r.point_data,
                     cell_data |-> r.cell_data, field_data |-> r.field_data]
    /\ pc' = "read"
    /\ UNCHANGED <<given, disk, resolveVars, registryVars, dispatchVars>>

(***************************************************************************)
(* helpers.py: write                                                       *)
(***************************************************************************)
\* gmsh_io.num_nodes_per_cell, the fixed node count of the canonical types.
num_nodes_per_cell ==
    << <<"vertex", 1>>, <<"line", 2>>, <<"triangle", 3>>, <<"quad", 4>>, <<"tetra", 4>>,
       <<"hexahedron", 8>> >>

\* The assert of write() on the row width of a cell block.
MalformedCellBlock == "MalformedCellBlock"

\* The assert of write() on a format tag that no branch took.
UnsupportedFormat == "UnsupportedFormat"

\* No check of the cell blocks.
CheckCellsSkipped(cells, k) == NoError

\* for key, value in mesh.cells.items():
\*     assert value.shape[1] == gmsh_io.num_nodes_per_cell[key]
\* from item k on: the exception that ends the loop, or "none".
RECURSIVE CheckCells(_, _)
CheckCells(cells, k) ==
    IF k > Len(cells) THEN NoError
    ELSE IF cells[k][1] \notin Keys(num_nodes_per_cell) THEN KeyError
    ELSE IF cells[k][2].ncols # Lookup(num_nodes_per_cell, cells[k][1]) THEN MalformedCellBlock
    ELSE CheckCells(cells, k + 1)

\* The branches of write() but the last: the codec of a format tag and the
\* write_binary flag it is called with ("" for a call without the flag).
Branches ==
    << <<"moab", <<"h5m_io", "">> >>,
       <<"ansys-ascii", <<"ansys_io", "False">> >>,
       <<"ansys-binary", <<"ansys_io", "True">> >>,
       <<"gmsh-ascii", <<"gmsh_io", "False">> >>,
       <<"gmsh-binary", <<"gmsh_io", "True">> >>,
       <<"med", <<"med_io", "">> >>,
       <<"medit", <<"medit_io", "">> >>,
       <<"dolfin-xml", <<"dolfin_io", "">> >>,
       <<"off", <<"off_io", "">> >>,
       <<"permas", <<"permas_io", "">> >>,
       <<"stl-ascii", <<"stl_io", "False">> >>,
       <<"stl-binary", <<"stl_io", "True">> >>,
       <<"vtu-ascii", <<"vtu_io", "False">> >>,
       <<"vtu", <<"vtu_io", "True">> >>,
       <<"vtu-binary", <<"vtu_io", "True">> >>,
       <<"vtk-ascii", <<"vtk_io", "False">> >>,
       <<"vtk", <<"vtk_io", "True">> >>,
       <<"vtk-binary", <<"vtk_io", "True">> >>,
       <<"xdmf", <<"xdmf_io", "">> >>,
       <<"xdmf3", <<"xdmf_io", "">> >>,
       <<"abaqus", <<"abaqus_io", "">> >> >>

Call(codec, filename, mesh, write_binary) ==
    [codec |-> codec, args |-> <<filename, mesh>>, write_binary |-> write_binary]

\* The write of a codec other than Exodus: it takes (path, mesh) and the
\* flag, and writes the file.
CollaboratorWrite(call) ==
    [err |-> NoError, nc |-> EmptyDataset, handle |-> HandleNone, touched |-> TRUE]

\* write(filename, mesh, file_format).  Gives [format, err, invoked, nc,
\* handle, touched].
helpers_write(filename, mesh, file_format) ==
    LET format == IF file_format = "" THEN _filetype_from_filename(filename) ELSE file_format
        sane == CheckCells(mesh.cells, 1)
        failed(e) == [format |-> format, err |-> e, invoked |-> <<>>, nc |-> EmptyDataset,
                      handle |-> HandleNone, touched |-> FALSE]
        done(call, r) == [format |-> format, err |-> r.err, invoked |-> <<call>>, nc |-> r.nc,
                          handle |-> r.handle, touched |-> r.touched]
    IN IF format = UnknownFormat THEN failed(UnknownFormat)
       ELSE IF sane # NoError THEN failed(sane)
       ELSE IF format \in Keys(Branches)
       THEN LET call == Call(Lookup(Branches, format)[1], filename, mesh, Lookup(Branches, format)[2])
            IN done(call, CollaboratorWrite(call))
       ELSE IF format # "exodus" THEN failed(UnsupportedFormat)
       ELSE done(Call("exodus_io", filename, mesh, ""), exodus_write(<<filename, mesh>>))

\* The filenames and the format tags of the calls: "" is no tag.
CallFilenames ==
    {<<"mesh", Dot, "e">>, <<"mesh", Dot, "exo">>, <<"mesh", Dot, "vtk">>,
     <<"mesh", Dot, "post", Dot, "gz">>, <<"mesh", Dot, "unknown">>}

output_filetypes ==
    {"abaqus", "ansys-ascii", "ansys-binary", "exodus", "gmsh-ascii", "gmsh-binary",
     "dolfin-xml", "med", "medit", "permas", "moab", "off", "stl-ascii", "stl-binary",
     "vtk-ascii", "vtk-binary", "vtu-ascii", "vtu-binary", "xdmf"}

CallFormats == {""} \cup output_filetypes \cup {"vtu", "vtk", "xdmf3", "gmsh"}

\* Cell blocks of one element: of the node count of their type, or of another.
CallBlocks ==
    {<<type, [dtype |-> "int64", ncols |-> w, rows |-> <<[j \in 1..w |-> j - 1]>>]>> :
        type \in {"line", "hexahedron", "polygon"}, w \in {2, 6, 8}}

\* mesh.Mesh(points, cells)
Mesh(points, cells) ==
    [points |-> points, cells |-> cells, point_data |-> <<>>, cell_data |-> <<>>,
     field_data |-> <<>>]

CallMeshes == {Mesh(PointsOf(2^3, "float64"), c) : c \in DictsUpTo(CallBlocks, MaxBlocks)}

\* A call of helpers.write.
DispatchWrite ==
    /\ pc = "idle"
    /\ \E filename \in CallFilenames, m \in CallMeshes, file_format \in CallFormats :
        LET r == helpers_write(filename, m, file_format)
        IN /\ fname' = filename
           /\ dformat' = file_format
           /\ given' = m
           /\ ftype' = r.format
           /\ raised' = r.err
           /\ invoked' = r.invoked
           /\ disk' = r.nc
           /\ handle' = r.handle
           /\ touched' = r.touched
    /\ pc' = "dispatched"
    /\ UNCHANGED <<ret, registryVars>>

(***************************************************************************)
(* The states before any call, and the specifications                      *)
(***************************************************************************)
NoReturn == [points |-> Zeros(0), cells |-> <<>>, point_data |-> <<>>,
             cell_data |-> <<>>, field_data |-> <<>>]

ResolveIdle ==
    /\ fname = Null
    /\ ftype = Null

RegistryIdle ==
    /\ regPc = Null
    /\ regIn = Null
    /\ regOut = Null

CodecIdle ==
    /\ pc = "idle"
    /\ given = <<>>
    /\ disk = EmptyDataset
    /\ handle = HandleNone
    /\ raised = NoError
    /\ ret = NoReturn

DispatchIdle ==
    /\ dformat = Null
    /\ invoked = <<>>
    /\ touched = FALSE

InitResolve ==
    /\ fname \in Filenames
    /\ ftype = Pending
    /\ RegistryIdle
    /\ CodecIdle
    /\ DispatchIdle

NextResolve == Resolve

SpecResolve == InitResolve /\ [][NextResolve]_vars

\* The trailing parts of a filename that start at one of its dots.
DotSuffixes(f) == {SubSeq(f, i, Len(f)) : i \in {j \in 1..Len(f) : f[j] = Dot}}

MatchingSuffixes(f) == DotSuffixes(f) \cap Keys(_extension_to_filetype)

LongestMatching(f) ==
    CHOOSE s \in MatchingSuffixes(f) : \A t \in MatchingSuffixes(f) : Len(t) <= Len(s)

\* C2: once resolved, the format is the one the extension table gives to
\* the longest dot-delimited trailing suffix of the filename that is a key of
\* the table, and the resolution fails when no trailing suffix is a key.
C2_LongestSuffixFormat ==
    ftype # Pending =>
        IF MatchingSuffixes(fname) = {}
        THEN ftype = UnknownFormat
        ELSE ftype = Lookup(_extension_to_filetype, LongestMatching(fname))

C2_Witness ==
    /\ fname = <<"mesh", Dot, "post", Dot, "gz">>
    /\ ftype = "permas"

C2_WitnessFails ==
    /\ fname = <<"mesh", Dot, "gz">>
    /\ ftype = UnknownFormat

InitRegistry ==
    /\ ResolveIdle
    /\ RegistryIdle
    /\ CodecIdle
    /\ DispatchIdle

NextRegistry == LookupCanonical \/ LookupDisk \/ ThenDisk \/ ThenCanonical

SpecRegistry == InitRegistry /\ [][NextRegistry]_vars

\* The place of a tag among the registered disk tags.
RegisteredAt(t) == CHOOSE i \in 1..Len(exodus_to_meshio_type) : exodus_to_meshio_type[i][1] = t

\* C5: a canonical tag that is a value of the registry has a disk tag, which
\* maps back to it; and the disk tag written for the canonical tag of a
\* registered disk tag t is the last-registered disk tag with t's canonical tag.
C5_RegistryInverse ==
    /\ (regPc = "to_disk" /\ regIn \in Values(exodus_to_meshio_type)) => regOut # KeyError
    /\ regPc = "canonical_of_disk" => regOut = regIn
    /\ (regPc = "to_canonical" /\ Upper(regIn) \in Keys(exodus_to_meshio_type)) => regOut # KeyError
    /\ regPc = "disk_of_canonical" =>
        /\ regOut \in Keys(exodus_to_meshio_type)
        /\ Lookup(exodus_to_meshio_type, regOut) = Lookup(exodus_to_meshio_type, Upper(regIn))
        /\ \A i \in 1..Len(exodus_to_meshio_type) :
              exodus_to_meshio_type[i][2] = Lookup(exodus_to_meshio_type, regOut)
                  => i <= RegisteredAt(regOut)

C5_Witness ==
    /\ regPc = "disk_of_canonical"
    /\ regIn = "HEX"
    /\ regOut = "HEX8"

InitCodec ==
    /\ ResolveIdle
    /\ RegistryIdle
    /\ CodecIdle
    /\ DispatchIdle

NextCodec == Place \/ Write \/ Read

Spec == InitCodec /\ [][NextCodec]_vars

(***************************************************************************)
(* Properties of the codec                                                 *)
(***************************************************************************)
\* The number an array element stands for, doubled.
Doubled(v, dtype) == IF IsFloat(dtype) THEN v ELSE 2 * v

DoubledRows(arr) ==
    [r \in 1..Len(arr.rows) |-> [c \in 1..Len(arr.rows[r]) |-> Doubled(arr.rows[r][c], arr.dtype)]]

DoubledData(arr) == [i \in 1..Len(arr.data) |-> Doubled(arr.data[i], arr.dtype)]

\* Two dicts of 2-d arrays hold the same keys with the same rows.
SameBlocks(a, b) ==
    /\ Keys(a) = Keys(b)
    /\ \A key \in Keys(a) : DoubledRows(Lookup(a, key)) = DoubledRows(Lookup(b, key))

\* Two dicts of 1-d arrays hold the same keys with the same values.
SameFields(a, b) ==
    /\ Keys(a) = Keys(b)
    /\ \A key \in Keys(a) : DoubledData(Lookup(a, key)) = DoubledData(Lookup(b, key))

\* The stored variable of a name.
Stored(nc, name) == CHOOSE v \in Range(nc.vars) : v.name = name

HasVar(nc, name) == \E v \in Range(nc.vars) : v.name = name

\* A read has returned what a write of a mesh without node and side sets stored.
ReadBack ==
    /\ pc = "read"
    /\ given # <<>>
    /\ raised = NoError
    /\ given[7] = <<>>
    /\ given[8] = <<>>

RoundTripHolds ==
    /\ DoubledRows(ret.points) = DoubledRows(given[2])
    /\ SameBlocks(ret.cells, given[3])
    /\ SameFields(ret.point_data, given[4])
    /\ ret.cell_data = <<>>
    /\ ret.field_data = <<>>

\* C1: reading what write stored for a mesh without node and side sets gives
\* the points, the cells and the point data of the mesh, with cell_data and
\* field_data empty.
C1_RoundTrip == ReadBack => RoundTripHolds

\* v, an element of an array of dtype from, is a number that dtype to holds.
Representable(v, from, to) ==
    IF IsFloat(to) THEN TRUE
    ELSE IF IsFloat(from) THEN v % 2 = 0 /\ Wrap(v \div 2, to) = v \div 2
    ELSE Wrap(v, to) = v

\* Every point-data value is a number that the dtype of the first field holds.
FirstDtypeHoldsAll(point_data) ==
    \A k \in 1..Len(point_data) : \A i \in 1..Len(point_data[k][2].data) :
        Representable(point_data[k][2].data[i], point_data[k][2].dtype, point_data[1][2].dtype)

\* The round trip gives the mesh back when every point-data value is a number
\* that the dtype of the first point-data field holds: vals_nod_var has the
\* dtype of the first field.
RoundTripOfOneDtype == (ReadBack /\ FirstDtypeHoldsAll(given[4])) => RoundTripHolds

RoundTripOfCells ==
    /\ ReadBack
    /\ Len(given[3]) = 2
    /\ Len(given[2].rows) = 2^7
    /\ \E k \in 1..2 : given[3][k][2].dtype = "int8" /\ Len(given[3][k][2].rows) = 2
    /\ RoundTripHolds

RoundTripOfFields ==
    /\ ReadBack
    /\ Len(given[4]) = 2
    /\ given[4][1][2].dtype = "float64"
    /\ given[4][2][2].dtype = "int8"
    /\ Len(given[4][1][1]) = LenString
    /\ RoundTripHolds

\* C6: after a write, connect<k> holds every entry of block k plus one,
\* node_ns<k> every entry of node set k plus one, elem_ss<k> every element
\* index of side set k plus one, and side_ss<k> its side numbers unchanged.
C6_IndexBase ==
    (pc = "written" /\ raised = NoError) =>
        /\ \A k \in 1..Len(given[3]) :
            Stored(disk, Numbered("connect", k)).data =
                [r \in 1..Len(given[3][k][2].rows) |->
                    [c \in 1..given[3][k][2].ncols |-> given[3][k][2].rows[r][c] + 1]]
        /\ \A k \in 1..Len(given[7]) :
            Stored(disk, Numbered("node_ns", k)).data =
                [i \in 1..Len(given[7][k][2].data) |-> given[7][k][2].data[i] + 1]
        /\ \A k \in 1..Len(given[8]) :
            /\ Stored(disk, Numbered("elem_ss", k)).data =
                [i \in 1..Len(given[8][k][2].rows) |-> given[8][k][2].rows[i][1] + 1]
            /\ Stored(disk, Numbered("side_ss", k)).data =
                [i \in 1..Len(given[8][k][2].rows) |-> given[8][k][2].rows[i][2]]

\* C7: a field name of len_string - 1 letters is stored as it is, and a
\* field name of len_string letters is stored as its first len_string - 1
\* letters.
C7_NameBoundary ==
    (pc = "written" /\ raised = NoError) =>
        \A k \in 1..Len(given[4]) :
            LET name == given[4][k][1]
                stored == DecodeRow(Stored(disk, Plain("name_nod_var")).data[k])
            IN /\ Len(name) = LenString - 1 => stored = name
               /\ Len(name) = LenString => stored = SubSeq(name, 1, LenString - 1)

\* C9: a call that opened the container has closed it when it ends.
C9_HandleClosed == (pc \in {"written", "read"} /\ handle # HandleNone) => handle = HandleClosed

\* C10: when the container holds coord, the points read are the transpose of
\* coord, wherever coord stands among the variables.
C10_CoordOverrides ==
    (pc = "read" /\ raised = NoError /\ HasVar(disk, Plain("coord"))) =>
        ret.points.rows = Transpose(Stored(disk, Plain("coord")).data,
                                    DimLen(disk, Plain("num_nodes")))

\* The connect variables of a container, in the order of the scan.
ConnectVars(nc) == SelectSeq(nc.vars, LAMBDA v : v.name[1] = "connect")

\* The rows, minus one, of the blocks of one canonical type, in that order.
RECURSIVE RowsOfType(_, _, _)
RowsOfType(blocks, type, i) ==
    IF i > Len(blocks) THEN <<>>
    ELSE (IF GetItem(exodus_to_meshio_type, Upper(blocks[i].elem_type)) = type
          THEN [r \in 1..Len(blocks[i].data) |->
                    [c \in 1..Len(blocks[i].data[r]) |-> blocks[i].data[r][c] - 1]]
          ELSE <<>>) \o RowsOfType(blocks, type, i + 1)

TypesOf(blocks) ==
    {GetItem(exodus_to_meshio_type, Upper(blocks[i].elem_type)) : i \in 1..Len(blocks)}

\* Several blocks of the container map to one canonical type.
SharedType(blocks) ==
    \E i, j \in 1..Len(blocks) :
        /\ i # j
        /\ GetItem(exodus_to_meshio_type, Upper(blocks[i].elem_type))
            = GetItem(exodus_to_meshio_type, Upper(blocks[j].elem_type))

\* Blocks of one canonical type have rows of one width.
SameWidths(nc, blocks) ==
    \A i, j \in 1..Len(blocks) :
        GetItem(exodus_to_meshio_type, Upper(blocks[i].elem_type))
            = GetItem(exodus_to_meshio_type, Upper(blocks[j].elem_type))
        => DimLen2(nc, blocks[i]) = DimLen2(nc, blocks[j])

Stacked ==
    /\ raised = NoError
    /\ Keys(ret.cells) = TypesOf(ConnectVars(disk))
    /\ \A type \in Keys(ret.cells) :
        Lookup(ret.cells, type).rows = RowsOfType(ConnectVars(disk), type, 1)

InitDispatch ==
    /\ ResolveIdle
    /\ RegistryIdle
    /\ CodecIdle
    /\ DispatchIdle

NextDispatch == DispatchWrite

SpecDispatch == InitDispatch /\ [][NextDispatch]_vars

(***************************************************************************)
(* Properties of the dispatcher                                            *)
(***************************************************************************)
\* Some block has a row width other than the node count of its type.
Malformed(cells) ==
    \E k \in 1..Len(cells) :
        /\ cells[k][1] \in Keys(num_nodes_per_cell)
        /\ cells[k][2].ncols # Lookup(num_nodes_per_cell, cells[k][1])

C4_ExodusWriteAccepted ==
    (pc = "dispatched" /\ ftype = "exodus" /\ CheckCells(given.cells, 1) = NoError) =>
        /\ invoked = <<Call("exodus_io", fname, given, "")>>
        /\ raised = NoError
        /\ touched
        /\ HasVar(disk, Plain("coord"))
        /\ \A k \in 1..Len(given.cells) : HasVar(disk, Numbered("connect", k))

====
